---- MODULE Spec2Model ----
(***************************************************************************)
(* Mempool and bundler core of the gaslift ERC-4337 bundler.               *)
(*                                                                         *)
(* The durable store (user_operations, bundles), the key-value cache       *)
(* (mempool:<hash>, sender_nonce:<sender>:<nonce>, bundle:lock), the       *)
(* request handlers running MempoolService methods and the workers running *)
(* BundlerService.bundleLoop are modelled.  Every await of the source is a *)
(* separate step, so that concurrent handlers and workers interleave where *)
(* the event loop (or another replica) lets them.                          *)
(***************************************************************************)
EXTENDS Integers, Sequences, FiniteSets, TLC

(***************************************************************************)
(* Bounds of the model.                                                    *)
(***************************************************************************)
\* at most this many rows are inserted into user_operations (per specification)
MaxRowsSeq == 3
MaxRowsFifo == 3
MaxRowsAdmit == 2
MaxRowsTick == 1
\* at most this many ticks are started (per specification)
MaxTicksFifo == 1
\* rows and bundles of the specification with a timer that never stops
MaxRowsSurvive == 2
\* a store, EntryPoint or chain that rejects is met by the first bundles only
MaxFaultyBundles == 1
\* bundleLoop invocations of the process that is started and shut down
MaxTicksProc == 2
MaxTicksTick == 2
\* stand-in for MAX_OPS_PER_BUNDLE = 10 (BundlerService.ts:12), scaled down
\* so that a tick can find more pending rows than fit into one bundle
MAX_OPS_PER_BUNDLE == 2
\* stand-in for MAX_MEMPOOL_SIZE = 1000 (MempoolService.ts:18), scaled down
MAX_MEMPOOL_SIZE == 3

(***************************************************************************)
(* User operations.  Only the fields the core reads are kept: sender       *)
(* (0 stands for a string that is no address), nonce (0 is the falsy       *)
(* nonce), maxPriorityFeePerGas (prio), maxFeePerGas (fee).                *)
(***************************************************************************)
NoOp == [sender |-> 0, nonce |-> 0, prio |-> 0, fee |-> 0]
NoHash == <<>>

\* ops of one sender and one nonce with fees around the 110% rule
OpsFee == [sender : {1}, nonce : {1}, prio : {5, 6}, fee : {10, 11}]
\* a small universe: an incumbent, a replacement of it, another nonce
OpsSmall ==
    { [sender |-> 1, nonce |-> 1, prio |-> 5, fee |-> 10],
      [sender |-> 1, nonce |-> 1, prio |-> 6, fee |-> 10],
      [sender |-> 1, nonce |-> 2, prio |-> 5, fee |-> 10] }
\* ops that fail the basic validation
OpsInvalid ==
    { [sender |-> 0, nonce |-> 1, prio |-> 5, fee |-> 10],
      [sender |-> 1, nonce |-> 0, prio |-> 5, fee |-> 10] }
\* ops that never meet an incumbent: each has its own nonce
OpsDistinct ==
    { [sender |-> 1, nonce |-> 1, prio |-> 5, fee |-> 10],
      [sender |-> 1, nonce |-> 2, prio |-> 5, fee |-> 10] }
\* three ops of one sender with consecutive nonces
OpsFifo == [sender : {1}, nonce : {1, 2, 3}, prio : {5}, fee : {10}]
\* one op more than the mempool holds, each with its own nonce
OpsMany == [sender : {1}, nonce : 1..(MAX_MEMPOOL_SIZE + 1), prio : {5}, fee : {10}]
OpsAll == OpsFee \cup OpsSmall \cup OpsDistinct \cup OpsFifo \cup OpsInvalid \cup OpsMany

\* getUserOperationHash: keccak256 over the encoded canonical fields,
\* modelled as the injective encoding itself (no collisions)
getUserOperationHash(op) == <<"h", op.sender, op.nonce, op.prio, op.fee>>

Hashes == { getUserOperationHash(op) : op \in OpsAll }

(***************************************************************************)
(* getUserOperationHash on whole UserOperationStructs, as the processes of *)
(* the service (replicas, restarts) compute it.  -1 stands for an absent   *)
(* number, "undefined" for absent bytes.                                   *)
(***************************************************************************)
Processes == {"p1", "p2"}

UserOpStructs ==
    [sender : {"0xaa", "0xAA", "0xbb"},
     nonce : {1, 2},
     initCode : {"undefined", "0x"},
     callData : {"0x12"},
     callGasLimit : {-1, 0, 5},
     verificationGasLimit : {7},
     preVerificationGas : {3},
     maxFeePerGas : {10},
     maxPriorityFeePerGas : {5},
     paymasterAndData : {"0x"},
     signature : {"0x51", "0x52"}]

\* the ten fields the hash is computed from
CanonicalFields ==
    {"sender", "nonce", "initCode", "callData", "callGasLimit",
     "verificationGasLimit", "preVerificationGas", "maxFeePerGas",
     "maxPriorityFeePerGas", "paymasterAndData"}

\* x || 0 and x || '0x' (lines 305-313)
OrZero(x) == IF x = -1 \/ x = 0 THEN 0 ELSE x
OrEmptyBytes(x) == IF x = "undefined" \/ x = "" THEN "0x" ELSE x

\* the 'address' coder reads an address whatever the case of its hex digits
AbiAddress(a) == IF a = "0xAA" THEN "0xaa" ELSE a

\* ethers.utils.keccak256, without collisions
keccak256(x) == <<"keccak256", x>>

\* an encoding that also covers the signature
packedWithSignature(userOp) ==
    <<AbiAddress(userOp.sender), userOp.nonce,
      keccak256(OrEmptyBytes(userOp.initCode)),
      keccak256(OrEmptyBytes(userOp.callData)),
      OrZero(userOp.callGasLimit), OrZero(userOp.verificationGasLimit),
      OrZero(userOp.preVerificationGas), OrZero(userOp.maxFeePerGas),
      OrZero(userOp.maxPriorityFeePerGas),
      keccak256(OrEmptyBytes(userOp.paymasterAndData)),
      keccak256(userOp.signature)>>

\* defaultAbiCoder.encode of the ten values (lines 289-314)
packed(userOp) ==
    <<AbiAddress(userOp.sender), userOp.nonce,
      keccak256(OrEmptyBytes(userOp.initCode)),
      keccak256(OrEmptyBytes(userOp.callData)),
      OrZero(userOp.callGasLimit), OrZero(userOp.verificationGasLimit),
      OrZero(userOp.preVerificationGas), OrZero(userOp.maxFeePerGas),
      OrZero(userOp.maxPriorityFeePerGas),
      keccak256(OrEmptyBytes(userOp.paymasterAndData))>>

\* getUserOperationHash(userOp) (lines 286-317) on a whole struct
hashOfStruct(userOp) == keccak256(packed(userOp))

NoStruct == CHOOSE u \in UserOpStructs : TRUE
NotHashed == [done |-> FALSE, userOp |-> NoStruct, hash |-> <<>>]
SNKey(op) == <<op.sender, op.nonce>>
SNKeys == { SNKey(op) : op \in OpsAll }

\* ethers.utils.isAddress(sender)
isAddress(sender) == sender # 0

Handlers == {"r1", "r2"}
Workers == {"w1", "w2"}

VARIABLES
    rows,           \* user_operations table: rows[i] is the row with id RowId(i)
    bundles,        \* bundles table
    mempoolKeys,    \* hashes h for which the key mempool:<h> exists
    senderNonce,    \* sender_nonce:<sender>:<nonce> -> hash, NoHash when absent
    lock,           \* the key bundle:lock exists
    lockHolders,    \* history: workers whose SET created the present lock key
    lockFreedByOther, \* history: a release deleted a key another worker had set
    req,            \* request handlers (MempoolService callers)
    wk,             \* bundler workers (bundleLoop invocations)
    now,            \* the clock read by new Date() at the last insert
    handleOpsCalls, \* history: [bundle, ops] of every call of EntryPoint.handleOps
    ticks,          \* history: number of bundleLoop invocations so far
    rpc,            \* the HTTP request the JSON-RPC route is serving
    hashed,         \* per process: the last op it hashed and the hash it got
    proc            \* the server process: ApiServer and its BundlerService

vars == <<rows, bundles, mempoolKeys, senderNonce, lock, lockHolders,
          lockFreedByOther, req, wk, now, handleOpsCalls, ticks, rpc, hashed,
          proc>>

storeVars == <<rows, bundles>>
cacheVars == <<mempoolKeys, senderNonce>>
lockVars == <<lock, lockHolders, lockFreedByOther>>
apiVars == <<rpc, hashed, proc>>

(***************************************************************************)
(* Durable store.                                                          *)
(***************************************************************************)
\* the primary key: a generated uuid, never equal to a hash
RowId(i) == <<"uuid", i>>

RowIdx == DOMAIN rows
RowsByHash(h) == { i \in RowIdx : rows[i].hash = h }
PendingIdx == { i \in RowIdx : rows[i].status = "pending" }

\* a lookup by primary key where the hash column is meant
findByHashAsId(h) == { i \in RowIdx : RowId(i) = h }
\* UserOperationRepository.findByHash(hash): the rows where hash = h
findByHash(h) == RowsByHash(h)

\* BaseRepository.update(id, data): UPDATE ... WHERE id = <id>
UpdateById(rs, id, status) ==
    [i \in DOMAIN rs |->
        IF RowId(i) = id THEN [rs[i] EXCEPT !.status = status] ELSE rs[i]]

\* UserOperationRepository.updateStatus(ids, status): UPDATE ... WHERE id IN ids
UpdateStatus(rs, ids, status) ==
    [i \in DOMAIN rs |->
        IF i \in ids THEN [rs[i] EXCEPT !.status = status] ELSE rs[i]]

Range(s) == { s[i] : i \in DOMAIN s }

\* getMempoolSize: number of keys mempool:*
getMempoolSize == Cardinality(mempoolKeys)

\* getUserOperation(h): the cached copy if the key exists, else the row
\* found by hash; "null" when neither exists.  The answer names its origin.
getUserOperation(h) ==
    IF h \in mempoolKeys THEN "cache"
    ELSE IF findByHash(h) # {} THEN "row"
    ELSE "null"

\* validateReplaceUserOp, the fee comparison (lines 174-190)
minNewMaxPriorityFee(old) == (old.prio * 110) \div 100
canReplaceFees(old, new) ==
    /\ ~(new.prio < minNewMaxPriorityFee(old))
    /\ ~(new.fee < old.fee)

\* removeFromMempool: the pipeline deleting both keys of op
DelMempoolKey(op) == mempoolKeys \ {getUserOperationHash(op)}
DelSenderNonceKey(op) == [senderNonce EXCEPT ![SNKey(op)] = NoHash]

\* addToMempool: the pipeline setting both keys of op
SetMempoolKey(op) == mempoolKeys \cup {getUserOperationHash(op)}
SetSenderNonceKey(op) ==
    [senderNonce EXCEPT ![SNKey(op)] = getUserOperationHash(op)]

OpOfHash(h) == CHOOSE op \in OpsAll : getUserOperationHash(op) = h

(***************************************************************************)
(* EntryPoint adapter: simulateValidation (part_002 lines 73-117).         *)
(***************************************************************************)
\* the data of a revert, by what it is and by its layout: selector names the
\* Solidity error the EntryPoint raised (ValidationResult carries the
\* validation result, FailedOp is a failure); fiveTuple: the bytes parse as
\* (uint256, uint256, uint256, uint256, bytes); signatureFailed: the
\* signature-failure component of a validation result is set
NoData == [selector |-> "", fiveTuple |-> FALSE, signatureFailed |-> FALSE]

RevertData ==
    [selector : {"ValidationResult"}, fiveTuple : BOOLEAN, signatureFailed : BOOLEAN]
    \cup [selector : {"FailedOp"}, fiveTuple : BOOLEAN, signatureFailed : {FALSE}]

\* how the call of line 84 ends: it returns (no revert), or it rejects with
\* an error that carries revert data or none
CallOutcomes ==
    { [reverted |-> FALSE, data |-> NoData], [reverted |-> TRUE, data |-> NoData] }
    \cup { [reverted |-> TRUE, data |-> d] : d \in RevertData }

\* the two outcomes of an adapter that answers plainly: a validation result
\* of a passing op, and a failure without data
PlainOutcomes ==
    { [reverted |-> TRUE,
       data |-> [selector |-> "ValidationResult", fiveTuple |-> TRUE,
                 signatureFailed |-> FALSE]],
      [reverted |-> TRUE, data |-> NoData] }

NoOutcome == [reverted |-> FALSE, data |-> [selector |-> "none", fiveTuple |-> FALSE,
                                            signatureFailed |-> FALSE]]

\* defaultAbiCoder.decode of the five types (lines 96-99): it reads the
\* layout only, never the selector; the empty set stands for a throw on
\* bytes that do not parse
abiDecode(data) ==
    IF data.fiveTuple
    THEN { [preOpGas |-> "decoded[0]", prefund |-> "decoded[1]", deadline |-> "decoded[3]"] }
    ELSE {}

\* simulateValidation (lines 78-116): a call that returns throws at line 87
\* into the catch of line 89; revertData is the data of the caught error; with
\* data the decoded first, second and fourth components are returned (lines
\* 101-105), the fifth is not read; without data, or when the decode throws,
\* an Error is thrown (lines 108, 113)
simulateValidation(outcome) ==
    LET revertData == IF outcome.reverted THEN outcome.data ELSE NoData IN
    IF revertData # NoData /\ abiDecode(revertData) # {}
    THEN "returns"
    ELSE "throws"

(***************************************************************************)
(* Request handlers.                                                       *)
(***************************************************************************)
\* the durable store and the cache as a caller finds them (history)
NoSnapshot ==
    [taken |-> FALSE, rows |-> <<>>, bundles |-> <<>>, mempoolKeys |-> {},
     senderNonce |-> [k \in SNKeys |-> NoHash]]
Snapshot ==
    [taken |-> TRUE, rows |-> rows, bundles |-> bundles,
     mempoolKeys |-> mempoolKeys, senderNonce |-> senderNonce]

\* keys: the answer of redis.keys('mempool:*') held by clearMempool;
\* sim: how the EntryPoint call of the simulation ended (history);
\* before: the store and the cache when the call was made (history)
IdleReq ==
    [pc |-> "idle", kind |-> "none", op |-> NoOp, old |-> NoHash,
     res |-> NoHash, err |-> "", hit |-> FALSE, wrote |-> 0, keys |-> {},
     sim |-> NoOutcome, before |-> NoSnapshot]

(***************************************************************************)
(* JSON-RPC route.  A JSON value is kept with its type: t is "string",     *)
(* "number" or "undefined", v its text.                                    *)
(***************************************************************************)
Undefined == [t |-> "undefined", v |-> ""]
Str(v) == [t |-> "string", v |-> v]
Num(v) == [t |-> "number", v |-> v]

\* ERROR_CODES (types/index.ts lines 190-207)
INVALID_REQUEST == -32600
METHOD_NOT_FOUND == -32601
INVALID_PARAMS == -32602
INTERNAL_ERROR == -32603
INVALID_OP == -32000
\* the codes of the error table
ErrorTable ==
    {-32700, INVALID_REQUEST, METHOD_NOT_FOUND, INVALID_PARAMS, INTERNAL_ERROR,
     INVALID_OP, -32001, -32002, -32003, -32004, -32005, -32006, -32007}

SUPPORTED_METHODS ==
    {"eth_chainId", "eth_supportedEntryPoints", "eth_estimateUserOperationGas",
     "eth_sendUserOperation", "eth_getUserOperationByHash",
     "eth_getUserOperationReceipt", "eth_bundler_clearMempool",
     "eth_bundler_getStatus"}
\* methods whose handler reads params[0] and params[1]
EntryPointMethods == {"eth_estimateUserOperationGas", "eth_sendUserOperation"}
\* methods whose handler reads params[0]
HashMethods == {"eth_getUserOperationByHash", "eth_getUserOperationReceipt"}

\* config.ethereum.entryPointAddress
entryPointAddress == "0x5FF1"
\* values a caller may supply as params[1]
EntryPointValues ==
    {Str("0x5FF1"), Str("0x5ff1"), Str("0xDEAD"), Str(""), Num("5"), Num("0")}

\* String.prototype.toLowerCase on the strings of the model
toLowerCase(x) ==
    CASE x = "0x5FF1" -> "0x5ff1"
      [] x = "0xDEAD" -> "0xdead"
      [] OTHER -> x

\* the values JavaScript's || skips
Falsy(x) ==
    \/ x.t = "undefined"
    \/ x.t = "string" /\ x.v = ""
    \/ x.t = "number" /\ x.v = "0"

\* lines 459-466 and 494-501: entryPoint = params[1] || configured address,
\* then entryPoint.toLowerCase() is compared; only strings have toLowerCase
EntryPointCheck(param) ==
    LET entryPoint == IF Falsy(param) THEN Str(entryPointAddress) ELSE param IN
    IF entryPoint.t # "string" THEN "TypeError"
    ELSE IF toLowerCase(entryPoint.v) # toLowerCase(entryPointAddress) THEN "unsupported"
    ELSE "ok"

\* a request: params has nparams elements, userOp is params[0] of a send,
\* entryPoint is params[1] (Undefined when nparams < 2), hash is params[0] of
\* the two lookups by hash (NoHash: a hash no op has)
Request(id, method, nparams, userOp, entryPoint) ==
    [id |-> id, method |-> method, nparams |-> nparams, userOp |-> userOp,
     entryPoint |-> entryPoint, hash |-> NoHash]

\* a lookup by hash: params = [h]
HashRequest(id, method, h) ==
    [Request(id, method, 1, NoOp, Undefined) EXCEPT !.hash = h]

\* the response object of handleSingleRequest (lines 362-365, 419, 424-435);
\* null: the result member is null
Result(id) ==
    [id |-> id, hasResult |-> TRUE, hasError |-> FALSE, code |-> 0, null |-> FALSE]
NullResult(id) == [Result(id) EXCEPT !.null = TRUE]
Error(id, code) ==
    [id |-> id, hasResult |-> FALSE, hasError |-> TRUE, code |-> code, null |-> FALSE]
NoResponse ==
    [id |-> 0, hasResult |-> FALSE, hasError |-> FALSE, code |-> 0, null |-> FALSE]

NoReply == [status |-> 0, elems |-> <<>>]

\* no HTTP request is being served
\* el[i]: "new", "awaiting" (its handler awaits a service) or "finished";
\* called[i]: the handler of element i called the mempool or the adapter;
\* threw[i]: the message of the error addUserOperation threw for element i;
\* order: the elements in the order they finished
IdleRpc ==
    [pc |-> "idle", batch |-> FALSE, body |-> <<>>, el |-> <<>>, resp |-> <<>>,
     called |-> <<>>, threw |-> <<>>, order |-> <<>>, reply |-> NoReply]

\* the request handler that runs addUserOperation for element i
HandlerOf(i) == IF i = 1 THEN "r1" ELSE "r2"

(***************************************************************************)
(* The server process (health.ts: ApiServer; BundlerService start / stop). *)
(***************************************************************************)
\* pc: where the process is (new: constructed; up: start() has run; close,
\* stopBg, db, kv, exit: the next step of shutdown(); exited);
\* listening: the HTTP server accepts connections; db, kv: AppDataSource is
\* initialized, the redis client is connected; isRunning and timers: the
\* field of BundlerService and the number of live setInterval timers;
\* last: what the last call of start() or stop() did (history)
NewProc ==
    [pc |-> "new", listening |-> FALSE, db |-> FALSE, kv |-> FALSE,
     isRunning |-> FALSE, timers |-> 0, last |-> "none"]

\* the process has not exited and its handles are open
Alive == proc.pc # "exited" /\ proc.db /\ proc.kv

AddInFlight == {"find", "size", "conflict", "existing", "rmGet", "rmDel",
                "rmUpdate", "simulate", "create"}

Init ==
    /\ rows = <<>>
    /\ bundles = <<>>
    /\ mempoolKeys = {}
    /\ senderNonce = [k \in SNKeys |-> NoHash]
    /\ lock = FALSE
    /\ lockHolders = {}
    /\ lockFreedByOther = FALSE
    /\ req = [r \in Handlers |-> IdleReq]
    /\ wk = [w \in Workers |->
                [pc |-> "idle", ops |-> <<>>, bundle |-> 0, k |-> 0, msg |-> "none",
                 last |-> "none"]]
    /\ now = 0
    /\ handleOpsCalls = {}
    /\ ticks = 0
    /\ rpc = IdleRpc
    /\ hashed = [p \in Processes |-> NotHashed]
    /\ proc = NewProc

Fail(r, msg) ==
    req' = [req EXCEPT ![r].pc = "failed", ![r].err = msg]

\* addUserOperation is called with an op of O
StartAdd(r, O, maxRows) ==
    /\ req[r].pc = "idle"
    /\ Len(rows) + Cardinality({q \in Handlers : req[q].pc \in AddInFlight}) < maxRows
    /\ \E op \in O :
        req' = [req EXCEPT ![r] = [IdleReq EXCEPT !.pc = "find", !.kind = "add", !.op = op]]
    /\ UNCHANGED <<storeVars, cacheVars, lockVars, wk, now, handleOpsCalls, ticks, apiVars>>

\* addUserOperation is called with an op of O; what the store and the cache
\* hold at the call is kept for comparison
StartAddObserved(r, O, maxRows) ==
    /\ req[r].pc = "idle"
    /\ Len(rows) + Cardinality({q \in Handlers : req[q].pc \in AddInFlight}) < maxRows
    /\ \E op \in O :
        req' = [req EXCEPT ![r] = [IdleReq EXCEPT !.pc = "find", !.kind = "add", !.op = op,
                                                   !.before = Snapshot]]
    /\ UNCHANGED <<storeVars, cacheVars, lockVars, wk, now, handleOpsCalls, ticks, apiVars>>

\* findByHash (line 41); on a miss the synchronous checks of
\* validateUserOperation (lines 199-205) run before the next await
FindByHash(r) ==
    /\ req[r].pc = "find"
    /\ LET op == req[r].op
           h == getUserOperationHash(op) IN
       IF findByHash(h) # {}
       THEN \E i \in findByHash(h) :
                req' = [req EXCEPT ![r].pc = "done", ![r].hit = TRUE,
                                   ![r].res = rows[i].hash]
       ELSE IF ~isAddress(op.sender) THEN Fail(r, "Invalid sender address")
       ELSE IF op.nonce = 0 THEN Fail(r, "Nonce is required")
       ELSE req' = [req EXCEPT ![r].pc = "size"]
    /\ UNCHANGED <<storeVars, cacheVars, lockVars, wk, now, handleOpsCalls, ticks, apiVars>>

\* a capacity check that lets the mempool grow one past its size
CheckSizeAbove(r) ==
    /\ req[r].pc = "size"
    /\ IF getMempoolSize > MAX_MEMPOOL_SIZE
       THEN Fail(r, "Mempool is full")
       ELSE req' = [req EXCEPT ![r].pc = "conflict"]
    /\ UNCHANGED <<storeVars, cacheVars, lockVars, wk, now, handleOpsCalls, ticks, apiVars>>

\* getMempoolSize and the capacity check (lines 208-211)
CheckSize(r) ==
    /\ req[r].pc = "size"
    /\ IF getMempoolSize >= MAX_MEMPOOL_SIZE
       THEN Fail(r, "Mempool is full")
       ELSE req' = [req EXCEPT ![r].pc = "conflict"]
    /\ UNCHANGED <<storeVars, cacheVars, lockVars, wk, now, handleOpsCalls, ticks, apiVars>>

\* redisService.get(conflictKey) (lines 214-217)
GetConflict(r) ==
    /\ req[r].pc = "conflict"
    /\ LET e == senderNonce[SNKey(req[r].op)] IN
       IF e = NoHash
       THEN req' = [req EXCEPT ![r].pc = "simulate"]
       ELSE req' = [req EXCEPT ![r].pc = "existing", ![r].old = e]
    /\ UNCHANGED <<storeVars, cacheVars, lockVars, wk, now, handleOpsCalls, ticks, apiVars>>

\* getUserOperation(existingOpHash) and the synchronous part of
\* validateReplaceUserOp (lines 218-226, 163-190)
GetExisting(r) ==
    /\ req[r].pc = "existing"
    /\ LET old == OpOfHash(req[r].old)
           new == req[r].op IN
       IF getUserOperation(req[r].old) = "null"
       THEN req' = [req EXCEPT ![r].pc = "simulate"]
       ELSE IF old.sender # new.sender \/ old.nonce # new.nonce
                 \/ ~canReplaceFees(old, new)
       THEN Fail(r, "Conflicting user operation")
       ELSE req' = [req EXCEPT ![r].pc = "rmGet"]
    /\ UNCHANGED <<storeVars, cacheVars, lockVars, wk, now, handleOpsCalls, ticks, apiVars>>

\* removeUserOperation is called directly with the hash of an op of O
StartRemove(r, O) ==
    /\ req[r].pc = "idle"
    /\ \E op \in O :
        req' = [req EXCEPT ![r] = [IdleReq EXCEPT !.pc = "rmGet", !.kind = "remove",
                                                   !.old = getUserOperationHash(op)]]
    /\ UNCHANGED <<storeVars, cacheVars, lockVars, wk, now, handleOpsCalls, ticks, apiVars>>

\* where a handler goes when removeUserOperation has returned
AfterRemove(r, removed) ==
    IF req[r].kind = "add"
    THEN req' = [req EXCEPT ![r].pc = "simulate"]
    ELSE req' = [req EXCEPT ![r].pc = "done",
                            ![r].res = IF removed THEN req[r].old ELSE NoHash]

\* removeFromMempool: getUserOperation(userOpHash) (lines 267-271)
RemoveGet(r) ==
    /\ req[r].pc = "rmGet"
    /\ IF getUserOperation(req[r].old) = "null"
       THEN AfterRemove(r, FALSE)
       ELSE req' = [req EXCEPT ![r].pc = "rmDel"]
    /\ UNCHANGED <<storeVars, cacheVars, lockVars, wk, now, handleOpsCalls, ticks, apiVars>>

\* removeFromMempool: pipeline.exec() of the two DELs (lines 273-283)
RemoveDel(r) ==
    /\ req[r].pc = "rmDel"
    /\ mempoolKeys' = DelMempoolKey(OpOfHash(req[r].old))
    /\ senderNonce' = DelSenderNonceKey(OpOfHash(req[r].old))
    /\ req' = [req EXCEPT ![r].pc = "rmUpdate"]
    /\ UNCHANGED <<storeVars, lockVars, wk, now, handleOpsCalls, ticks, apiVars>>

\* userOpRepo.update(userOpHash, {status: 'removed'}) (line 81): the hash is
\* passed where the primary key is expected.  A store that compares the
\* values matches no row; a store that checks the uuid syntax (or the
\* status enum, which has no 'removed') rejects the statement.
RemoveUpdate(r) ==
    /\ req[r].pc = "rmUpdate"
    /\ \/ /\ rows' = UpdateById(rows, req[r].old, "removed")
          /\ AfterRemove(r, TRUE)
       \/ /\ rows' = rows
          /\ Fail(r, "update rejected")
    /\ UNCHANGED <<bundles, cacheVars, lockVars, wk, now, handleOpsCalls, ticks, apiVars>>

\* entryPointService.simulateValidation (lines 231-236) with a call that ends
\* as one of Outcomes: an error of the adapter is thrown again as "User
\* operation validation failed"
SimulateValidation(r, Outcomes) ==
    /\ req[r].pc = "simulate"
    /\ \E outcome \in Outcomes :
          IF simulateValidation(outcome) = "returns"
          THEN req' = [req EXCEPT ![r].pc = "create", ![r].sim = outcome]
          ELSE req' = [req EXCEPT ![r].pc = "failed", ![r].sim = outcome,
                                  ![r].err = "User operation validation failed"]
    /\ UNCHANGED <<storeVars, cacheVars, lockVars, wk, now, handleOpsCalls, ticks, apiVars>>

\* the simulation where the signature and the chain state, which decide the
\* outcome, are not followed: the adapter answers or fails
Simulate(r) == SimulateValidation(r, PlainOutcomes)

\* transactionHash: whether the column is set; only
\* UserOperationRepository.markAsSubmitted passes a transaction hash to
\* updateStatus, and nothing calls it
NewRow(op, t) ==
    [hash |-> getUserOperationHash(op), op |-> op, status |-> "pending",
     submittedAt |-> t, bundleId |-> 0, transactionHash |-> FALSE]

\* what mempoolService.getUserOperation(h) hands to a caller: the copy cached
\* by addToMempool (the record as saved at admission: pending, no transaction
\* hash), else a row found by hash; empty when there is neither
UserOpRecords(h) ==
    IF h \in mempoolKeys
    THEN { [status |-> "pending", transactionHash |-> FALSE] }
    ELSE { [status |-> rows[i].status, transactionHash |-> rows[i].transactionHash] :
             i \in findByHash(h) }

\* handleGetUserOperationReceipt (part_003 lines 561-632), the answers it can
\* give for h: an error when the op is not found, null while the record is not
\* confirmed or has no transaction hash, else the receipt of a mined
\* transaction
getUserOperationReceipt(h) ==
    IF UserOpRecords(h) = {} THEN {"not found"}
    ELSE { IF u.status # "confirmed" \/ ~u.transactionHash THEN "null" ELSE "receipt" :
             u \in UserOpRecords(h) }

\* userOpRepo.create (lines 51-56): submittedAt is new Date(), which is the
\* time of the previous insert or later
CreateRow(r) ==
    /\ req[r].pc = "create"
    /\ \E t \in {now, now + 1} :
        /\ now' = t
        /\ rows' = Append(rows, NewRow(req[r].op, t))
    /\ req' = [req EXCEPT ![r].pc = "cache", ![r].wrote = 1]
    /\ UNCHANGED <<bundles, cacheVars, lockVars, wk, handleOpsCalls, ticks, apiVars>>

\* addToMempool (lines 239-263), then return savedOp
AddToMempool(r) ==
    /\ req[r].pc = "cache"
    /\ mempoolKeys' = SetMempoolKey(req[r].op)
    /\ senderNonce' = SetSenderNonceKey(req[r].op)
    /\ req' = [req EXCEPT ![r].pc = "done", ![r].wrote = 2,
                          ![r].res = getUserOperationHash(req[r].op)]
    /\ UNCHANGED <<storeVars, lockVars, wk, now, handleOpsCalls, ticks, apiVars>>

\* the caller has its answer (a record, a boolean or an error)
Return(r) ==
    /\ req[r].pc \in {"done", "failed"}
    /\ req' = [req EXCEPT ![r] = IdleReq]
    /\ UNCHANGED <<storeVars, cacheVars, lockVars, wk, now, handleOpsCalls, ticks, apiVars>>

\* clearMempool is called
StartClear(r) ==
    /\ req[r].pc = "idle"
    /\ req' = [req EXCEPT ![r] = [IdleReq EXCEPT !.pc = "clearKeys", !.kind = "clear"]]
    /\ UNCHANGED <<storeVars, cacheVars, lockVars, wk, now, handleOpsCalls, ticks, apiVars>>

\* clearMempool: redis.keys('mempool:*') (lines 144-145); with no key there is
\* nothing to delete
ClearKeys(r) ==
    /\ req[r].pc = "clearKeys"
    /\ req' = [req EXCEPT ![r].keys = mempoolKeys,
                          ![r].pc = IF mempoolKeys = {} THEN "done" ELSE "clearDel"]
    /\ UNCHANGED <<storeVars, cacheVars, lockVars, wk, now, handleOpsCalls, ticks, apiVars>>

\* clearMempool: redis.del(keys) (lines 147-149): the listed mempool:* keys are
\* deleted, nothing else is written
ClearDel(r) ==
    /\ req[r].pc = "clearDel"
    /\ mempoolKeys' = mempoolKeys \ req[r].keys
    /\ req' = [req EXCEPT ![r].pc = "done"]
    /\ UNCHANGED <<storeVars, senderNonce, lockVars, wk, now, handleOpsCalls, ticks, apiVars>>

ClearStep(r) == ClearKeys(r) \/ ClearDel(r)

(***************************************************************************)
(* JSON-RPC route: the POST handler and handleSingleRequest.               *)
(***************************************************************************)
\* a POST arrives with a well-formed body of B: a request (batch = FALSE) or a
\* non-empty array of requests
RpcReceive(B, batch, maxRows) ==
    /\ rpc.pc = "idle"
    /\ \A r \in Handlers : req[r].pc = "idle"
    /\ \E body \in B :
        /\ Len(rows) + Cardinality({ i \in DOMAIN body :
                                       body[i].method = "eth_sendUserOperation" })
              <= maxRows
        /\ rpc' = [IdleRpc EXCEPT !.pc = "serve", !.batch = batch, !.body = body,
                                  !.el = [i \in DOMAIN body |-> "new"],
                                  !.resp = [i \in DOMAIN body |-> NoResponse],
                                  !.called = [i \in DOMAIN body |-> FALSE],
                                  !.threw = [i \in DOMAIN body |-> ""]]
    /\ UNCHANGED <<storeVars, cacheVars, lockVars, req, wk, now, handleOpsCalls, ticks, hashed, proc>>

\* element i has its response
Finished(i, response) ==
    [rpc EXCEPT !.el[i] = "finished", !.resp[i] = response,
                !.order = Append(rpc.order, i)]

\* handleSingleRequest(body[i]) up to its first await (lines 357-410): map
\* starts the elements in input order.  An RpcError thrown on the way gives
\* the response its code, any other error gives INTERNAL_ERROR (lines
\* 421-435).
Dispatch(i) ==
    /\ rpc.pc = "serve"
    /\ i \in DOMAIN rpc.body
    /\ rpc.el[i] = "new"
    /\ \A j \in 1..(i - 1) : rpc.el[j] # "new"
    /\ LET e == rpc.body[i]
           check == EntryPointCheck(e.entryPoint)
           call == [rpc EXCEPT !.el[i] = "awaiting", !.called[i] = TRUE]
       IN  IF e.method \notin SUPPORTED_METHODS
           THEN rpc' = Finished(i, Error(e.id, METHOD_NOT_FOUND)) /\ UNCHANGED req
           ELSE IF e.method \in EntryPointMethods \cup HashMethods /\ e.nparams < 1
           THEN rpc' = Finished(i, Error(e.id, INVALID_PARAMS)) /\ UNCHANGED req
           ELSE IF e.method \in EntryPointMethods /\ check = "TypeError"
           THEN rpc' = Finished(i, Error(e.id, INTERNAL_ERROR)) /\ UNCHANGED req
           ELSE IF e.method \in EntryPointMethods /\ check = "unsupported"
           THEN rpc' = Finished(i, Error(e.id, INVALID_PARAMS)) /\ UNCHANGED req
           ELSE IF e.method = "eth_sendUserOperation"
           THEN /\ rpc' = call
                /\ req' = [req EXCEPT ![HandlerOf(i)] =
                               [IdleReq EXCEPT !.pc = "find", !.kind = "add",
                                               !.op = e.userOp]]
           ELSE IF e.method \in {"eth_chainId", "eth_supportedEntryPoints"}
           THEN rpc' = [rpc EXCEPT !.el[i] = "awaiting"] /\ UNCHANGED req
           ELSE rpc' = call /\ UNCHANGED req
    /\ UNCHANGED <<storeVars, cacheVars, lockVars, wk, now, handleOpsCalls, ticks, hashed, proc>>

\* the error code a handler gives to an error of the service it called
\* (lines 479-485, 507-513, 551-557, 625-631, 640-646, 662-668)
WrapCode(method) ==
    IF method \in EntryPointMethods THEN INVALID_OP
    ELSE IF method \in HashMethods THEN INVALID_PARAMS
    ELSE INTERNAL_ERROR

\* handleGetUserOperationByHash (lines 523-558) once params[0] is there: a
\* missing op throws RpcError(INVALID_PARAMS) inside the try, and the catch
\* throws it again as RpcError(INVALID_PARAMS)
handleGetUserOperationByHash(e) ==
    IF getUserOperation(e.hash) = "null"
    THEN Error(e.id, WrapCode(e.method))
    ELSE Result(e.id)

\* handleGetUserOperationReceipt (lines 566-631) once params[0] is there: the
\* provider's receipt lookup answers or throws
handleGetUserOperationReceipt(e) ==
    UNION { CASE a = "not found" -> { Error(e.id, WrapCode(e.method)) }
              [] a = "null" -> { NullResult(e.id) }
              [] OTHER -> { Result(e.id), Error(e.id, WrapCode(e.method)) } :
            a \in getUserOperationReceipt(e.hash) }

\* the await of element i ends (lines 380-420): addUserOperation has returned
\* or thrown; the other services (adapter, store, bundler), whose state is not
\* followed here, answer or throw; the two config reads always answer
Finish(i) ==
    /\ rpc.pc = "serve"
    /\ i \in DOMAIN rpc.body
    /\ rpc.el[i] = "awaiting"
    /\ LET e == rpc.body[i] IN
        IF e.method = "eth_sendUserOperation"
        THEN /\ req[HandlerOf(i)].pc \in {"done", "failed"}
             /\ rpc' = [Finished(i, IF req[HandlerOf(i)].pc = "done"
                                    THEN Result(e.id)
                                    ELSE Error(e.id, WrapCode(e.method)))
                          EXCEPT !.threw[i] = req[HandlerOf(i)].err]
             /\ req' = [req EXCEPT ![HandlerOf(i)] = IdleReq]
        ELSE IF e.method \in {"eth_chainId", "eth_supportedEntryPoints"}
        THEN rpc' = Finished(i, Result(e.id)) /\ UNCHANGED req
        ELSE IF e.method = "eth_getUserOperationByHash"
        THEN /\ rpc' = Finished(i, handleGetUserOperationByHash(e))
             /\ UNCHANGED req
        ELSE IF e.method = "eth_getUserOperationReceipt"
        THEN /\ \E response \in handleGetUserOperationReceipt(e) :
                  rpc' = Finished(i, response)
             /\ UNCHANGED req
        ELSE /\ \E response \in {Result(e.id), Error(e.id, WrapCode(e.method))} :
                  rpc' = Finished(i, response)
             /\ UNCHANGED req
    /\ UNCHANGED <<storeVars, cacheVars, lockVars, wk, now, handleOpsCalls, ticks, hashed, proc>>

\* responses handed over in the order the elements finished
PromiseAllByCompletion(resp, order) ==
    [k \in DOMAIN order |-> resp[order[k]]]

\* Promise.all (lines 319-321): the values in the order of the promises
PromiseAll(resp, order) == resp

\* the serializer built from the 200 response schema of the route (lines
\* 285-306): an array passes with result and error members; a single object
\* must have a result and has no error member in the schema.  A payload that
\* fits no branch is not sent as it is: the serializer either throws (the
\* reply becomes a 500) or writes null.
Serialize200(batch, payload) ==
    IF batch \/ (payload[1].hasResult /\ ~payload[1].hasError)
    THEN { [status |-> 200, elems |-> payload] }
    ELSE { [status |-> 500, elems |-> <<>>], [status |-> 200, elems |-> <<>>] }

\* reply.status(200).send(...) (lines 322 and 327)
Reply ==
    /\ rpc.pc = "serve"
    /\ \A i \in DOMAIN rpc.body : rpc.el[i] = "finished"
    /\ \E reply \in Serialize200(rpc.batch, PromiseAll(rpc.resp, rpc.order)) :
          rpc' = [rpc EXCEPT !.pc = "replied", !.reply = reply]
    /\ UNCHANGED <<storeVars, cacheVars, lockVars, req, wk, now, handleOpsCalls, ticks, hashed, proc>>

\* the connection is done
RpcDone ==
    /\ rpc.pc = "replied"
    /\ rpc' = IdleRpc
    /\ UNCHANGED <<storeVars, cacheVars, lockVars, req, wk, now, handleOpsCalls, ticks, hashed, proc>>

\* the steps of an admission that meets no incumbent
AdmitStep(r) ==
    \/ FindByHash(r)
    \/ CheckSize(r)
    \/ GetConflict(r)
    \/ Simulate(r)
    \/ CreateRow(r)
    \/ AddToMempool(r)
    \/ Return(r)

\* the steps of a replacement and of a removal
ReplaceStep(r) ==
    \/ GetExisting(r)
    \/ RemoveGet(r)
    \/ RemoveDel(r)
    \/ RemoveUpdate(r)

\* the steps of an addUserOperation whose caller is a route handler: the
\* answer is taken by Finish
ServiceAdmitStep(r) ==
    \/ FindByHash(r)
    \/ CheckSize(r)
    \/ GetConflict(r)
    \/ Simulate(r)
    \/ CreateRow(r)
    \/ AddToMempool(r)

ServiceStep(r) == ServiceAdmitStep(r) \/ ReplaceStep(r)

HandlerStep(r) == AdmitStep(r) \/ ReplaceStep(r)

(***************************************************************************)
(* Bundler workers: one bundleLoop invocation each (a timer tick of a      *)
(* replica; ticks of one replica overlap when one outlasts the interval).  *)
(***************************************************************************)
\* msg: the message of the error caught at line 133 ("none" before any), by
\* its length: "short" fits the 255 characters of the error columns, "long"
\* does not
\* last: how the previous bundleLoop of the worker ended (history)
IdleWorker(last) ==
    [pc |-> "idle", ops |-> <<>>, bundle |-> 0, k |-> 0, msg |-> "none", last |-> last]

\* the lengths an error message of the chain client may have
ErrorLengths == {"short", "long"}

\* between a successful acquireBundleLock and releaseBundleLock
InTick == {"read", "create", "submit", "markSubmitted", "wait", "markConfirmed",
           "confirmOps", "failBundle", "failOps", "removeDel", "removeUpdate",
           "release"}

\* the interval timer fires bundleLoop
TickFire(w, maxTicks) ==
    /\ wk[w].pc = "idle"
    /\ ticks < maxTicks
    /\ ticks' = ticks + 1
    /\ wk' = [wk EXCEPT ![w].pc = "acquire"]
    /\ UNCHANGED <<storeVars, cacheVars, lockVars, req, now, handleOpsCalls, apiVars>>

\* a timer that is cleared once a bundle has failed
TimerStopsOnFailure(w) ==
    /\ wk[w].pc = "idle"
    /\ \A b \in DOMAIN bundles : bundles[b].status # "failed"
    /\ wk' = [wk EXCEPT ![w].pc = "acquire"]
    /\ UNCHANGED <<storeVars, cacheVars, lockVars, req, now, handleOpsCalls, ticks, apiVars>>

\* start (lines 42-59): setInterval fires bundleLoop every BUNDLE_INTERVAL_MS
\* for as long as the service runs; a rejected bundleLoop is passed to
\* console.error and the timer stays
TimerFire(w) ==
    /\ wk[w].pc = "idle"
    /\ wk' = [wk EXCEPT ![w].pc = "acquire"]
    /\ UNCHANGED <<storeVars, cacheVars, lockVars, req, now, handleOpsCalls, ticks, apiVars>>

\* a SET without NX sets the key whether or not it exists
SetAlways == TRUE
\* SET bundle:lock 1 NX EX 30: sets the key only when it does not exist
SetNX == ~lock

\* acquireBundleLock (lines 210-228) and the skip of bundleLoop (lines 80-83)
AcquireBundleLock(w) ==
    /\ wk[w].pc = "acquire"
    /\ IF SetNX
       THEN /\ lock' = TRUE
            /\ lockHolders' = (IF lock THEN lockHolders ELSE {}) \cup {w}
            /\ wk' = [wk EXCEPT ![w].pc = "read"]
            /\ UNCHANGED lockFreedByOther
       ELSE /\ wk' = [wk EXCEPT ![w] = IdleWorker("skipped")]
            /\ UNCHANGED lockVars
    /\ UNCHANGED <<storeVars, cacheVars, req, now, handleOpsCalls, ticks, apiVars>>

\* s lists distinct pending rows in ascending submittedAt, and no pending row
\* left out is older than a listed one
SortedPending(s) ==
    /\ \A i \in DOMAIN s : s[i] \in PendingIdx
    /\ \A i, j \in DOMAIN s : i < j =>
          /\ s[i] # s[j]
          /\ rows[s[i]].submittedAt <= rows[s[j]].submittedAt
    /\ \A i \in DOMAIN s : \A p \in PendingIdx \ Range(s) :
          rows[s[i]].submittedAt <= rows[p].submittedAt

Min(a, b) == IF a < b THEN a ELSE b

\* a query without ORDER BY: any limit pending rows in any order
PendingUnordered(limit) ==
    { s \in UNION { [1..n -> RowIdx] : n \in {Min(limit, Cardinality(PendingIdx))} } :
        /\ \A i \in DOMAIN s : s[i] \in PendingIdx
        /\ \A i, j \in DOMAIN s : i # j => s[i] # s[j] }

\* the answers of getPendingUserOperations(limit) (UserOperationRepository.ts
\* lines 73-79): where status = pending, order by submittedAt ASC, take limit.
\* Rows with equal submittedAt come in an order the store chooses.
PendingAnswers(limit) ==
    { s \in UNION { [1..n -> RowIdx] : n \in {Min(limit, Cardinality(PendingIdx))} } :
        SortedPending(s) }

\* a read of every pending row, whatever their number
ReadPendingAll(w) ==
    /\ wk[w].pc = "read"
    /\ \E s \in PendingAnswers(Cardinality(PendingIdx)) :
        wk' = [wk EXCEPT ![w].ops = s,
                         ![w].pc = IF Len(s) = 0 THEN "release" ELSE "create"]
    /\ UNCHANGED <<storeVars, cacheVars, lockVars, req, now, handleOpsCalls, ticks, apiVars>>

\* createAndSubmitBundle lines 98-103
ReadPending(w) ==
    /\ wk[w].pc = "read"
    /\ \E s \in PendingAnswers(MAX_OPS_PER_BUNDLE) :
        wk' = [wk EXCEPT ![w].ops = s,
                         ![w].pc = IF Len(s) = 0 THEN "release" ELSE "create"]
    /\ UNCHANGED <<storeVars, cacheVars, lockVars, req, now, handleOpsCalls, ticks, apiVars>>

\* bundleRepo.createBundle(ids) (BundleRepository.ts lines 24-37): the rows are
\* looked up with where: {id: ids}, an array where one id is expected.  A store
\* that reads it as "id IN ids" saves the bundle with its userOperations, which
\* sets their bundleId; a store that compares id to the array rejects the
\* query, and the tick ends (the call is outside the try of line 110).
CreateBundle(w) ==
    /\ wk[w].pc = "create"
    /\ \/ /\ bundles' = Append(bundles, [status |-> "pending", error |-> FALSE])
          /\ rows' = [i \in RowIdx |->
                        IF i \in Range(wk[w].ops)
                        THEN [rows[i] EXCEPT !.bundleId = Len(bundles) + 1]
                        ELSE rows[i]]
          /\ wk' = [wk EXCEPT ![w].pc = "submit", ![w].bundle = Len(bundles) + 1]
       \/ /\ UNCHANGED storeVars
          /\ wk' = [wk EXCEPT ![w].pc = "release"]
    /\ UNCHANGED <<cacheVars, lockVars, req, now, handleOpsCalls, ticks, apiVars>>

\* submitBundle (lines 154-189): the fee data may be missing ('Failed to get
\* gas price data'), handleOps may reject ('Failed to handle ops: ' and the
\* client's message, of any length), or the transaction is sent
SubmitBundle(w) ==
    /\ wk[w].pc = "submit"
    /\ \/ /\ wk' = [wk EXCEPT ![w].pc = "failBundle", ![w].msg = "short"]
          /\ UNCHANGED handleOpsCalls
       \/ /\ \E len \in ErrorLengths :
                wk' = [wk EXCEPT ![w].pc = "failBundle", ![w].msg = len]
          /\ handleOpsCalls' = handleOpsCalls \cup {[bundle |-> wk[w].bundle, ops |-> wk[w].ops]}
       \/ /\ wk' = [wk EXCEPT ![w].pc = "markSubmitted"]
          /\ handleOpsCalls' = handleOpsCalls \cup {[bundle |-> wk[w].bundle, ops |-> wk[w].ops]}
    /\ UNCHANGED <<storeVars, cacheVars, lockVars, req, now, ticks, apiVars>>

SetBundle(b, status, err) ==
    bundles' = [bundles EXCEPT ![b] = [status |-> status, error |-> err]]

\* an await inside the try of lines 110-132 rejects: the error is caught at
\* line 133
Caught(w) ==
    \E len \in ErrorLengths :
        wk' = [wk EXCEPT ![w].pc = "failBundle", ![w].msg = len]

\* bundleRepo.markAsSubmitted (line 115); the store may reject the statement
\* (connection lost, statement aborted)
MarkSubmitted(w) ==
    /\ wk[w].pc = "markSubmitted"
    /\ \/ /\ SetBundle(wk[w].bundle, "submitted", FALSE)
          /\ wk' = [wk EXCEPT ![w].pc = "wait"]
       \/ /\ UNCHANGED bundles
          /\ Caught(w)
    /\ UNCHANGED <<rows, cacheVars, lockVars, req, now, handleOpsCalls, ticks, apiVars>>

\* tx.wait() (line 118) resolves with the receipt or rejects
WaitReceipt(w) ==
    /\ wk[w].pc = "wait"
    /\ \/ wk' = [wk EXCEPT ![w].pc = "markConfirmed"]
       \/ Caught(w)
    /\ UNCHANGED <<storeVars, cacheVars, lockVars, req, now, handleOpsCalls, ticks, apiVars>>

\* bundleRepo.markAsConfirmed (line 121); the store may reject the statement
MarkConfirmed(w) ==
    /\ wk[w].pc = "markConfirmed"
    /\ \/ /\ SetBundle(wk[w].bundle, "confirmed", FALSE)
          /\ wk' = [wk EXCEPT ![w].pc = "confirmOps"]
       \/ /\ UNCHANGED bundles
          /\ Caught(w)
    /\ UNCHANGED <<rows, cacheVars, lockVars, req, now, handleOpsCalls, ticks, apiVars>>

\* userOpRepo.markAsConfirmed(ids) (lines 124-127), still inside the try; the
\* store may reject the statement
ConfirmOps(w) ==
    /\ wk[w].pc = "confirmOps"
    /\ \/ /\ rows' = UpdateStatus(rows, Range(wk[w].ops), "confirmed")
          /\ wk' = [wk EXCEPT ![w].pc = "release"]
       \/ /\ UNCHANGED rows
          /\ Caught(w)
    /\ UNCHANGED <<bundles, cacheVars, lockVars, req, now, handleOpsCalls, ticks, apiVars>>

\* catch: bundleRepo.markAsFailed(bundle.id, errorMessage) (line 139) writes
\* the whole message into bundles.error, a varchar(255) (entities/Bundle.ts
\* lines 29-30): the store rejects a longer value, and the rejection leaves
\* the catch block
FailBundle(w) ==
    /\ wk[w].pc = "failBundle"
    /\ IF wk[w].msg = "long"
       THEN /\ UNCHANGED bundles
            /\ wk' = [wk EXCEPT ![w].pc = "release"]
       ELSE /\ SetBundle(wk[w].bundle, "failed", TRUE)
            /\ wk' = [wk EXCEPT ![w].pc = "failOps"]
    /\ UNCHANGED <<rows, cacheVars, lockVars, req, now, handleOpsCalls, ticks, apiVars>>

\* catch: userOpRepo.markAsFailed(ids) (lines 142-145)
FailOps(w) ==
    /\ wk[w].pc = "failOps"
    /\ rows' = UpdateStatus(rows, Range(wk[w].ops), "failed")
    /\ wk' = [wk EXCEPT ![w].pc = "removeDel", ![w].k = 1]
    /\ UNCHANGED <<bundles, cacheVars, lockVars, req, now, handleOpsCalls, ticks, apiVars>>

\* catch: mempoolService.removeUserOperation(op.hash) for the k-th op
\* (lines 148-150): removeFromMempool finds the op (its row exists) and
\* deletes its two keys
TickRemoveDel(w) ==
    /\ wk[w].pc = "removeDel"
    /\ LET op == rows[wk[w].ops[wk[w].k]].op IN
        /\ mempoolKeys' = DelMempoolKey(op)
        /\ senderNonce' = DelSenderNonceKey(op)
    /\ wk' = [wk EXCEPT ![w].pc = "removeUpdate"]
    /\ UNCHANGED <<storeVars, lockVars, req, now, handleOpsCalls, ticks, apiVars>>

\* ... then userOpRepo.update(userOpHash, {status: 'removed'}), as in
\* RemoveUpdate; a rejection leaves the loop and the catch block
TickRemoveUpdate(w) ==
    /\ wk[w].pc = "removeUpdate"
    /\ \/ /\ rows' = UpdateById(rows, rows[wk[w].ops[wk[w].k]].hash, "removed")
          /\ wk' = IF wk[w].k < Len(wk[w].ops)
                   THEN [wk EXCEPT ![w].pc = "removeDel", ![w].k = wk[w].k + 1]
                   ELSE [wk EXCEPT ![w].pc = "release"]
       \/ /\ rows' = rows
          /\ wk' = [wk EXCEPT ![w].pc = "release"]
    /\ UNCHANGED <<bundles, cacheVars, lockVars, req, now, handleOpsCalls, ticks, apiVars>>

\* a release that leaves the key in place
ReleaseKeepsKey(w) ==
    /\ wk[w].pc = "release"
    /\ UNCHANGED lockVars
    /\ wk' = [wk EXCEPT ![w] = IdleWorker("ran")]
    /\ UNCHANGED <<storeVars, cacheVars, req, now, handleOpsCalls, ticks, apiVars>>

\* releaseBundleLock (lines 230-237): DEL bundle:lock
ReleaseBundleLock(w) ==
    /\ wk[w].pc = "release"
    /\ lock' = FALSE
    /\ lockHolders' = {}
    /\ lockFreedByOther' = (lockFreedByOther \/ (lock /\ w \notin lockHolders))
    /\ wk' = [wk EXCEPT ![w] = IdleWorker("ran")]
    /\ UNCHANGED <<storeVars, cacheVars, req, now, handleOpsCalls, ticks, apiVars>>

WorkerStep(w) ==
    \/ AcquireBundleLock(w)
    \/ ReadPending(w)
    \/ CreateBundle(w)
    \/ SubmitBundle(w)
    \/ MarkSubmitted(w)
    \/ WaitReceipt(w)
    \/ MarkConfirmed(w)
    \/ ConfirmOps(w)
    \/ FailBundle(w)
    \/ FailOps(w)
    \/ TickRemoveDel(w)
    \/ TickRemoveUpdate(w)
    \/ ReleaseBundleLock(w)

(***************************************************************************)
(* The key-value store expires keys on its own.                            *)
(***************************************************************************)
\* the process of w dies inside a tick: nothing of the tick runs any more
Crash(w) ==
    /\ wk[w].pc \in InTick
    /\ wk' = [wk EXCEPT ![w].pc = "dead"]
    /\ UNCHANGED <<storeVars, cacheVars, lockVars, req, now, handleOpsCalls, ticks, apiVars>>

\* releaseBundleLock when the DEL is rejected (lines 234-236): the error is
\* logged and the key stays
ReleaseFails(w) ==
    /\ wk[w].pc = "release"
    /\ wk' = [wk EXCEPT ![w] = IdleWorker("ran")]
    /\ UNCHANGED <<storeVars, cacheVars, lockVars, req, now, handleOpsCalls, ticks, apiVars>>

\* a lock key that was set without EX: it never expires
LockWithoutTtl ==
    /\ FALSE
    /\ UNCHANGED vars

\* bundle:lock reaches BUNDLE_LOCK_TTL (30 s)
LockExpire ==
    /\ lock
    /\ lock' = FALSE
    /\ lockHolders' = {}
    /\ UNCHANGED lockFreedByOther
    /\ UNCHANGED <<storeVars, cacheVars, req, wk, now, handleOpsCalls, ticks, apiVars>>

\* a mempool:<hash> key reaches MEMPOOL_TTL
MempoolKeyExpire ==
    /\ \E h \in mempoolKeys : mempoolKeys' = mempoolKeys \ {h}
    /\ UNCHANGED <<storeVars, senderNonce, lockVars, req, wk, now, handleOpsCalls, ticks, apiVars>>

\* a sender_nonce:* key reaches MEMPOOL_TTL
SenderNonceKeyExpire ==
    /\ \E k \in SNKeys :
        /\ senderNonce[k] # NoHash
        /\ senderNonce' = [senderNonce EXCEPT ![k] = NoHash]
    /\ UNCHANGED <<storeVars, mempoolKeys, lockVars, req, wk, now, handleOpsCalls, ticks, apiVars>>

(***************************************************************************)
(* Start, stop and shutdown of the process.                                *)
(***************************************************************************)
\* BundlerService.start up to its await (lines 42-56): nothing when already
\* running, else isRunning is set and one interval timer is made
startUnguarded(p) ==
    [p EXCEPT !.isRunning = TRUE, !.timers = @ + 1, !.last = "started"]

start(p) ==
    IF p.isRunning
    THEN [p EXCEPT !.last = "start-noop"]
    ELSE [p EXCEPT !.isRunning = TRUE, !.timers = @ + 1, !.last = "started"]

\* BundlerService.stop (lines 61-74): nothing when not running, else
\* isRunning is cleared and the timer with it
stop(p) ==
    IF ~p.isRunning
    THEN [p EXCEPT !.last = "stop-noop"]
    ELSE [p EXCEPT !.isRunning = FALSE, !.timers = 0, !.last = "stopped"]

\* the first bundleLoop, which start() calls itself (line 58), run by w
InitialBundleLoop(w, maxTicks) ==
    /\ wk[w].pc = "idle"
    /\ ticks < maxTicks
    /\ ticks' = ticks + 1
    /\ wk' = [wk EXCEPT ![w].pc = "acquire"]

\* bundlerService.start() is called
BundlerStart(w, maxTicks) ==
    /\ proc.pc = "up"
    /\ proc' = start(proc)
    /\ IF proc.isRunning
       THEN UNCHANGED <<wk, ticks>>
       ELSE InitialBundleLoop(w, maxTicks)
    /\ UNCHANGED <<storeVars, cacheVars, lockVars, req, now, handleOpsCalls, rpc, hashed>>

\* bundlerService.stop() is called
BundlerStop ==
    /\ proc.pc = "up"
    /\ proc' = stop(proc)
    /\ UNCHANGED <<storeVars, cacheVars, lockVars, req, wk, now, handleOpsCalls, ticks,
                   rpc, hashed>>

\* a live interval timer fires bundleLoop (lines 52-55)
IntervalFire(w, maxTicks) ==
    /\ proc.pc # "exited"
    /\ proc.timers > 0
    /\ wk[w].pc = "idle"
    /\ ticks < maxTicks
    /\ ticks' = ticks + 1
    /\ wk' = [wk EXCEPT ![w].pc = "acquire"]
    /\ UNCHANGED <<storeVars, cacheVars, lockVars, req, now, handleOpsCalls, apiVars>>

\* ApiServer.start (health.ts lines 211-233): redis and the database are
\* connected, the server listens, the bundler is started
ServerStart(w, maxTicks) ==
    /\ proc.pc = "new"
    /\ proc' = [start(proc) EXCEPT !.pc = "up", !.listening = TRUE, !.db = TRUE,
                                   !.kv = TRUE]
    /\ InitialBundleLoop(w, maxTicks)
    /\ UNCHANGED <<storeVars, cacheVars, lockVars, req, now, handleOpsCalls, rpc, hashed>>

\* the signal handler of the entry module (config/index.ts lines 203-210),
\* the first listener of the signal: process.exit(0) at once
SignalExit ==
    /\ proc.pc \notin {"new", "exited"}
    /\ proc' = [proc EXCEPT !.pc = "exited", !.listening = FALSE, !.db = FALSE,
                            !.kv = FALSE, !.timers = 0]
    /\ UNCHANGED <<storeVars, cacheVars, lockVars, req, wk, now, handleOpsCalls, ticks,
                   rpc, hashed>>

\* shutdown() is called (health.ts lines 283-300, 311): by the signal handler
\* of ApiServer where the entry module's is not installed before it
ShutdownCall ==
    /\ proc.pc = "up"
    /\ proc' = [proc EXCEPT !.pc = "close"]
    /\ UNCHANGED <<storeVars, cacheVars, lockVars, req, wk, now, handleOpsCalls, ticks,
                   rpc, hashed>>

\* the steps of shutdown (health.ts lines 316-331), one await each:
\* server.close, bundlerService.stop, AppDataSource.destroy,
\* redisService.disconnect, process.exit
ShutdownStep ==
    /\ proc.pc \in {"close", "stopBg", "db", "kv", "exit"}
    /\ proc' = CASE proc.pc = "close" -> [proc EXCEPT !.pc = "stopBg", !.listening = FALSE]
                 [] proc.pc = "stopBg" -> [stop(proc) EXCEPT !.pc = "db"]
                 [] proc.pc = "db" -> [proc EXCEPT !.pc = "kv", !.db = FALSE]
                 [] proc.pc = "kv" -> [proc EXCEPT !.pc = "exit", !.kv = FALSE]
                 [] proc.pc = "exit" -> [proc EXCEPT !.pc = "exited"]
    /\ UNCHANGED <<storeVars, cacheVars, lockVars, req, wk, now, handleOpsCalls, ticks,
                   rpc, hashed>>

(***************************************************************************)
(* Specifications.                                                         *)
(***************************************************************************)
\* nothing is in flight
Quiet ==
    /\ \A r \in Handlers : req[r].pc = "idle"
    /\ \A w \in Workers : wk[w].pc = "idle"

\* admissions and removals made one after the other: a call starts only when
\* the previous one has returned; no key expires, no tick runs
NextSeq ==
    \/ Quiet /\ StartAdd("r1", OpsFee, MaxRowsSeq)
    \/ Quiet /\ StartAdd("r1", OpsInvalid, MaxRowsSeq)
    \/ Quiet /\ StartRemove("r1", OpsFee)
    \/ HandlerStep("r1")

SpecSeq == Init /\ [][NextSeq]_vars

\* admissions of ops that meet no incumbent and ticks of one worker, one after
\* the other; no key expires
NextFifo ==
    \/ Quiet /\ StartAdd("r1", OpsFifo, MaxRowsFifo)
    \/ Quiet /\ TickFire("w1", MaxTicksFifo)
    \/ AdmitStep("r1")
    \/ WorkerStep("w1")

SpecFifo == Init /\ [][NextFifo]_vars

\* the steps of a tick that the worker takes on its own: every await but
\* tx.wait(), which resolves only when the chain delivers a receipt or an error
TickProgress(w) ==
    \/ AcquireBundleLock(w)
    \/ ReadPending(w)
    \/ CreateBundle(w)
    \/ SubmitBundle(w)
    \/ MarkSubmitted(w)
    \/ MarkConfirmed(w)
    \/ ConfirmOps(w)
    \/ FailBundle(w)
    \/ FailOps(w)
    \/ TickRemoveDel(w)
    \/ TickRemoveUpdate(w)
    \/ ReleaseBundleLock(w)

\* SpecFifo where the handler and the worker keep running; the chain need not
\* answer
SpecFifoLive ==
    /\ SpecFifo
    /\ WF_vars(AdmitStep("r1"))
    /\ WF_vars(TickProgress("w1"))

\* NextFifo with cache keys that expire
NextFifoTtl ==
    \/ NextFifo
    \/ MempoolKeyExpire
    \/ SenderNonceKeyExpire

\* the handler and the worker keep running, the chain answers, and every cache
\* key reaches its TTL
SpecFifoTtlLive ==
    /\ Init /\ [][NextFifoTtl]_vars
    /\ WF_vars(AdmitStep("r1"))
    /\ WF_vars(WorkerStep("w1"))
    /\ WF_vars(MempoolKeyExpire)
    /\ WF_vars(SenderNonceKeyExpire)

\* a step of a worker in an environment that answers: the store runs
\* createBundle, and once a bundle has failed (and from bundle
\* MaxFaultyBundles + 1 on) nothing rejects, neither store nor EntryPoint nor
\* chain
Responsive(w) ==
    /\ (wk[w].pc = "create" => wk'[w].pc = "submit")
    /\ (wk[w].pc # "failBundle" /\ wk'[w].pc = "failBundle") =>
          /\ wk[w].bundle <= MaxFaultyBundles
          /\ \A b \in DOMAIN bundles : bundles[b].status # "failed"

\* admissions of ops that meet no incumbent and ticks of one worker whose timer
\* never stops, one after the other; no key expires
NextSurvive ==
    \/ Quiet /\ StartAdd("r1", OpsDistinct, MaxRowsSurvive)
    \/ Quiet /\ TimerFire("w1")
    \/ AdmitStep("r1")
    \/ WorkerStep("w1") /\ Responsive("w1")

\* the handler and the worker keep running, and the timer keeps firing: among
\* the moments at which nothing is in flight, which come again and again, it
\* fires at some
SpecSurvive ==
    /\ Init /\ [][NextSurvive]_vars
    /\ SF_vars(Quiet /\ TimerFire("w1"))
    /\ WF_vars(AdmitStep("r1"))
    /\ WF_vars(WorkerStep("w1") /\ Responsive("w1"))

\* admissions, one after the other, of more ops than the mempool holds; no key
\* expires, no tick runs
NextFull ==
    \/ Quiet /\ StartAdd("r1", OpsMany, MAX_MEMPOOL_SIZE + 1)
    \/ AdmitStep("r1")

SpecFull == Init /\ [][NextFull]_vars

\* admissions and calls of clearMempool, one after the other; no key expires,
\* no tick runs
NextClear ==
    \/ Quiet /\ StartAdd("r1", OpsFifo, MaxRowsSeq)
    \/ Quiet /\ StartClear("r1")
    \/ AdmitStep("r1")
    \/ ClearStep("r1")

SpecClear == Init /\ [][NextClear]_vars

\* process p, at any time and whatever the stores hold, hashes an op
HashOp(p) ==
    /\ \E userOp \in UserOpStructs :
          hashed' = [hashed EXCEPT ![p] =
                        [done |-> TRUE, userOp |-> userOp, hash |-> hashOfStruct(userOp)]]
    /\ UNCHANGED <<storeVars, cacheVars, lockVars, req, wk, now, handleOpsCalls, ticks, rpc, proc>>

\* the processes hash ops
NextHash == \E p \in Processes : HashOp(p)

SpecHash == Init /\ [][NextHash]_vars

\* the elements of the batches: harmless reads, an unknown method, and sends
\* of valid and invalid ops
BatchElems ==
    { Request(id, m, 0, NoOp, Undefined) :
        id \in {1, 2}, m \in {"eth_chainId", "unsupported_method"} }
    \cup { Request(id, "eth_sendUserOperation", 1, op, Undefined) :
             id \in {1, 2},
             op \in OpsDistinct \cup {[sender |-> 0, nonce |-> 1, prio |-> 5, fee |-> 10]} }

BatchBodies == UNION { [1..n -> BatchElems] : n \in 1..Cardinality(Handlers) }

\* batches served one after the other; the elements of a batch run side by
\* side; no key expires, no tick runs
NextBatch ==
    \/ RpcReceive(BatchBodies, TRUE, MaxRowsAdmit)
    \/ \E i \in 1..Cardinality(Handlers) : Dispatch(i)
    \/ \E i \in 1..Cardinality(Handlers) : Finish(i)
    \/ \E r \in Handlers : ServiceAdmitStep(r)
    \/ Reply
    \/ RpcDone

SpecBatch == Init /\ [][NextBatch]_vars

\* ops sent in single requests: more than the mempool holds, a replacement of
\* the first, and invalid ones
OpsRpc ==
    OpsMany \cup {[sender |-> 1, nonce |-> 1, prio |-> 6, fee |-> 11]} \cup OpsInvalid

\* single requests: every method with no and with one parameter, sends of the
\* ops of OpsRpc, and every entryPoint value with the two methods that take one
SingleElems ==
    { Request(1, m, n, NoOp, Undefined) :
        m \in (SUPPORTED_METHODS \ {"eth_sendUserOperation"}) \cup {"unsupported_method"},
        n \in {0, 1} }
    \cup { HashRequest(1, m, getUserOperationHash(op)) :
             m \in HashMethods, op \in OpsRpc }
    \cup { Request(1, "eth_sendUserOperation", 0, NoOp, Undefined) }
    \cup { Request(1, "eth_sendUserOperation", 1, op, Undefined) : op \in OpsRpc }
    \cup { Request(1, m, 2, [sender |-> 1, nonce |-> 1, prio |-> 5, fee |-> 10], ep) :
             m \in EntryPointMethods, ep \in EntryPointValues }

SingleBodies == { <<e>> : e \in SingleElems }

\* single requests served one after the other; no key expires, no tick runs
NextRpc ==
    \/ RpcReceive(SingleBodies, FALSE, MAX_MEMPOOL_SIZE + 1)
    \/ Dispatch(1)
    \/ Finish(1)
    \/ ServiceStep("r1")
    \/ Reply
    \/ RpcDone

SpecRpc == Init /\ [][NextRpc]_vars

\* admissions made one after the other against an EntryPoint whose call ends
\* in every way; no key expires, no tick runs
NextSim ==
    \/ Quiet /\ StartAdd("r1", OpsDistinct, MaxRowsSeq)
    \/ FindByHash("r1")
    \/ CheckSize("r1")
    \/ GetConflict("r1")
    \/ SimulateValidation("r1", CallOutcomes)
    \/ CreateRow("r1")
    \/ AddToMempool("r1")
    \/ Return("r1")

SpecSim == Init /\ [][NextSim]_vars

\* one process from its start to its exit: admissions while it listens, ticks
\* of its timer one after the other, a signal or a shutdown at any moment; a
\* handler or a tick whose process has exited or whose handles are closed is
\* followed no further; no key expires
NextProc ==
    \/ ServerStart("w1", MaxTicksProc)
    \/ IntervalFire("w1", MaxTicksProc)
    \/ proc.listening /\ StartAdd("r1", OpsDistinct, MaxRowsSurvive)
    \/ Alive /\ AdmitStep("r1")
    \/ Alive /\ WorkerStep("w1")
    \/ SignalExit
    \/ ShutdownCall
    \/ ShutdownStep

SpecProc == Init /\ [][NextProc]_vars

\* calls of start and stop in any order on a process that is up, its timer,
\* and ticks that may overlap; the store is empty
NextStartStop ==
    \/ ServerStart("w1", MaxTicksProc)
    \/ \E w \in Workers : BundlerStart(w, MaxTicksProc)
    \/ BundlerStop
    \/ \E w \in Workers : IntervalFire(w, MaxTicksProc)
    \/ \E w \in Workers : AcquireBundleLock(w)
    \/ \E w \in Workers : ReadPending(w)
    \/ \E w \in Workers : ReleaseBundleLock(w)

SpecStartStop == Init /\ [][NextStartStop]_vars

\* two replicas tick on an empty store; the first may die inside a tick, a
\* release may be rejected, and the lock key expires
NextCrash ==
    \/ \E w \in Workers : TimerFire(w)
    \/ \E w \in Workers : AcquireBundleLock(w)
    \/ \E w \in Workers : ReadPending(w)
    \/ \E w \in Workers : ReleaseBundleLock(w)
    \/ \E w \in Workers : ReleaseFails(w)
    \/ Crash("w1")
    \/ LockExpire

\* the second replica keeps running and its timer keeps firing; the key-value
\* store lets the TTL of the lock run out
SpecCrashLive ==
    /\ Init /\ [][NextCrash]_vars
    /\ WF_vars(TimerFire("w2"))
    /\ WF_vars(AcquireBundleLock("w2"))
    /\ WF_vars(ReadPending("w2"))
    /\ WF_vars(ReleaseBundleLock("w2") \/ ReleaseFails("w2"))
    /\ WF_vars(LockExpire)

\* admissions, one after the other, of valid and invalid ops, of a replacement
\* and of more ops than the mempool holds; the store and the cache at each
\* call are kept; no key expires, no tick runs
NextFrame ==
    \/ Quiet /\ StartAddObserved("r1", OpsRpc, MAX_MEMPOOL_SIZE + 1)
    \/ HandlerStep("r1")

SpecFrame == Init /\ [][NextFrame]_vars

\* concurrent admissions of more ops than the mempool holds, each with its
\* own nonce; no key expires, no tick runs
NextCapacity ==
    \/ \E r \in Handlers : StartAdd(r, OpsMany, MAX_MEMPOOL_SIZE + 1)
    \/ \E r \in Handlers : AdmitStep(r)

SpecCapacity == Init /\ [][NextCapacity]_vars

\* concurrent request handlers; cache keys expire
NextAdmit ==
    \/ \E r \in Handlers : StartAdd(r, OpsSmall, MaxRowsAdmit)
    \/ \E r \in Handlers : HandlerStep(r)
    \/ MempoolKeyExpire
    \/ SenderNonceKeyExpire

SpecAdmit == Init /\ [][NextAdmit]_vars

\* no worker is past the timer
WorkersIdle == \A w \in Workers : wk[w].pc = "idle"

\* concurrent workers; between their ticks one request handler admits ops that
\* meet no incumbent (an admission and a tick do not overlap here); the lock
\* key expires
NextTick ==
    \/ WorkersIdle /\ StartAdd("r1", OpsDistinct, MaxRowsTick)
    \/ AdmitStep("r1")
    \/ \E w \in Workers : req["r1"].pc = "idle" /\ TickFire(w, MaxTicksTick)
    \/ \E w \in Workers : WorkerStep(w)
    \/ LockExpire

SpecTick == Init /\ [][NextTick]_vars

(***************************************************************************)
(* Claims.                                                                 *)
(***************************************************************************)
WorkersInTick == { w \in Workers : wk[w].pc \in InTick }
AddReturned(r) == req[r].kind = "add" /\ req[r].pc = "done"

\* C1: addUserOperation(op) called twice one after the other returns the same
\* hash both times and leaves exactly one row with that hash; the second call
\* creates no row and writes no cache key.  (SpecSeq: calls do not overlap.)
C1_IdempotentSequential ==
    /\ \A h \in Hashes : Cardinality(RowsByHash(h)) <= 1
    /\ \A r \in Handlers : AddReturned(r) =>
          /\ req[r].res = getUserOperationHash(req[r].op)
          /\ Cardinality(RowsByHash(req[r].res)) = 1
          /\ (req[r].hit => req[r].wrote = 0)

\* a second call with the same op has returned the existing record
C1_Witness ==
    \E r \in Handlers :
        /\ AddReturned(r)
        /\ req[r].hit
        /\ req[r].res = getUserOperationHash(req[r].op)
        /\ req[r].res \in mempoolKeys

\* C2: under any interleaving of concurrent addUserOperation calls for the same
\* op, the durable store ends (all calls have returned) with one row for its hash.
C2_IdempotentConcurrent ==
    (\A r \in Handlers : req[r].pc \in {"idle", "done", "failed"}) =>
        \A h \in Hashes : Cardinality(RowsByHash(h)) <= 1

\* C3: in every reachable state at most one pending row exists per
\* (sender, nonce), and at most one pending op per (sender, nonce) is cached.
C3_UniquePerSenderNonce ==
    \A k \in SNKeys :
        /\ Cardinality({ i \in DOMAIN rows :
                           rows[i].status = "pending" /\ SNKey(rows[i].op) = k }) <= 1
        /\ Cardinality({ h \in mempoolKeys : SNKey(OpOfHash(h)) = k }) <= 1

\* C4: when a candidate R is admitted while an incumbent I of the same
\* (sender, nonce) is indexed, 10 * R.prio >= 11 * I.prio and R.fee >= I.fee.
\* (req.old is the incumbent the index named when R was validated.)
C4_ReplacementMonotonic ==
    \A r \in Handlers :
        (AddReturned(r) /\ ~req[r].hit /\ req[r].old # NoHash) =>
            /\ 10 * req[r].op.prio >= 11 * OpOfHash(req[r].old).prio
            /\ req[r].op.fee >= OpOfHash(req[r].old).fee

\* C5: against a lock key that exists, no acquireBundleLock returns true: the
\* key has one setter at a time, and a worker is past acquireBundleLock (reads
\* pending ops, creates a bundle) only after its own SET succeeded.
C5_LockAcquireExclusive ==
    /\ Cardinality(lockHolders) <= 1
    /\ (lockHolders # {} => lock)
    /\ \A w \in Workers :
          /\ (w \in lockHolders => wk[w].pc \in InTick)
          /\ (wk[w].pc \in {"idle", "acquire"} => wk[w].ops = <<>> /\ wk[w].bundle = 0)

\* one worker holds the unexpired lock in its tick, another attempt was skipped
C5_Witness ==
    \E w, v \in Workers :
        /\ w # v
        /\ lock
        /\ w \in lockHolders
        /\ wk[w].pc \in InTick
        /\ wk[v].pc = "idle"
        /\ wk[v].last = "skipped"

\* C6: at every instant at most one worker is between a successful
\* acquireBundleLock and its releaseBundleLock, whatever the timing of the lock
\* TTL, and no release frees a lock another worker holds.
C6_OneWorkerInTick ==
    /\ Cardinality(WorkersInTick) <= 1
    /\ ~lockFreedByOther

\* C7: the ops passed to handleOps are the first (at most MAX_OPS_PER_BUNDLE)
\* pending ops in ascending submittedAt: no pending op left out is older than a
\* selected one, an op admitted earlier precedes a later one in the argument,
\* and the argument is what the tick selected.  (SpecFifo: the rows a tick
\* left out are the rows still pending that it did not select.)
C7_FifoSelection ==
    /\ \A w \in Workers : wk[w].pc \in (InTick \ {"read"}) =>
          LET ops == wk[w].ops
              unselected == { i \in DOMAIN rows :
                                rows[i].status = "pending" /\ i \notin Range(ops) }
          IN /\ Len(ops) <= MAX_OPS_PER_BUNDLE
             /\ (unselected # {} => Len(ops) = MAX_OPS_PER_BUNDLE)
             /\ \A i \in DOMAIN ops : \A p \in unselected :
                   ~(rows[p].submittedAt < rows[ops[i]].submittedAt)
             /\ \A c \in handleOpsCalls : c.bundle = wk[w].bundle => c.ops = ops
    /\ \A c \in handleOpsCalls :
          /\ Len(c.ops) \in 1..MAX_OPS_PER_BUNDLE
          /\ \A i, j \in DOMAIN c.ops : i < j =>
                /\ c.ops[i] # c.ops[j]
                /\ ~(rows[c.ops[j]].submittedAt < rows[c.ops[i]].submittedAt)

\* handleOps was called with two ops admitted at different times while a third
\* pending op, not older than either, was left for a later tick
C7_Witness ==
    \E w \in Workers : \E c \in handleOpsCalls :
        /\ c.bundle = wk[w].bundle
        /\ Len(c.ops) = MAX_OPS_PER_BUNDLE
        /\ rows[c.ops[1]].submittedAt < rows[c.ops[Len(c.ops)]].submittedAt
        /\ \E p \in DOMAIN rows : rows[p].status = "pending" /\ p \notin Range(c.ops)

\* C8: when no tick is in progress and the lock is released, every op that
\* references a confirmed or failed bundle has that bundle's status.
C8_LifecycleConsistent ==
    ((\A w \in Workers : wk[w].pc = "idle") /\ ~lock) =>
        \A i \in DOMAIN rows :
            (rows[i].bundleId # 0
               /\ bundles[rows[i].bundleId].status \in {"confirmed", "failed"})
            => rows[i].status = bundles[rows[i].bundleId].status

\* C9: when no admission, removal or tick is mid-flight, mempool:<hash> exists
\* iff the row with that hash is pending.
C9_CacheAgreesWithStore ==
    Quiet =>
        \A h \in Hashes :
            h \in mempoolKeys <=>
                (\E i \in DOMAIN rows : rows[i].hash = h /\ rows[i].status = "pending")

\* C10: once an op is removed (removeUserOperation returned true, or the op was
\* the incumbent of a replacement that went on), both its cache keys are gone
\* and its row, found by hash, has status removed.
C10_RemovedIsRemoved ==
    \A r \in Handlers :
        (\/ req[r].kind = "remove" /\ req[r].pc = "done" /\ req[r].res # NoHash
         \/ req[r].kind = "add" /\ req[r].pc = "simulate" /\ req[r].old # NoHash
              /\ RowsByHash(req[r].old) # {})
        => /\ req[r].old \notin mempoolKeys
           /\ senderNonce[SNKey(OpOfHash(req[r].old))] # req[r].old
           /\ \A i \in RowsByHash(req[r].old) : rows[i].status = "removed"

\* C11: once an op is removed (removeUserOperation returned true, or the op was
\* the incumbent of a replacement that went on), getUserOperation(its hash)
\* answers null.
C11_RemovedReadsNull ==
    \A r \in Handlers :
        (\/ req[r].kind = "remove" /\ req[r].pc = "done" /\ req[r].res # NoHash
         \/ req[r].kind = "add" /\ req[r].pc = "simulate" /\ req[r].old # NoHash
              /\ RowsByHash(req[r].old) # {})
        => getUserOperation(req[r].old) = "null"

\* C12: an op with a valid sender and nonce 0 passes the pre-admission
\* validation: its admission is not refused for want of a nonce.
C12_NonceZeroAccepted ==
    \A r \in Handlers :
        (req[r].kind = "add" /\ isAddress(req[r].op.sender) /\ req[r].op.nonce = 0
           /\ req[r].pc = "failed")
        => req[r].err # "Nonce is required"

\* C13: when a tick in which a step from the gas estimation to the receipt
\* failed has ended, its bundle is failed with an error stored, every op of the
\* bundle is failed, and the cache keys of those ops are gone.
C13_FailureOutcome ==
    \A w \in Workers :
        (wk[w].pc = "release" /\ wk[w].msg # "none") =>
            /\ bundles[wk[w].bundle].status = "failed"
            /\ bundles[wk[w].bundle].error
            /\ \A i \in Range(wk[w].ops) :
                  /\ rows[i].status = "failed"
                  /\ rows[i].hash \notin mempoolKeys
                  /\ senderNonce[SNKey(rows[i].op)] # rows[i].hash

C15_ReceiptTimeout ==
    \A w \in Workers : (wk[w].pc = "wait") ~> (wk[w].pc = "idle")

\* C16: a bundle's status only moves pending -> submitted -> confirmed,
\* pending -> failed or submitted -> failed; a confirmed or failed bundle keeps
\* its status.
C16_BundleStateMachine ==
    [][\A b \in DOMAIN bundles :
          bundles'[b].status # bundles[b].status =>
              <<bundles[b].status, bundles'[b].status>> \in
                  { <<"pending", "submitted">>, <<"submitted", "confirmed">>,
                    <<"pending", "failed">>, <<"submitted", "failed">> }
      ]_vars

\* C17: the status of an op only moves forward along pending -> submitted ->
\* confirmed | failed, or from pending to removed; a confirmed, failed or
\* removed op keeps its status.
C17_OpStatusMonotonic ==
    [][\A i \in DOMAIN rows :
          rows'[i].status # rows[i].status =>
              <<rows[i].status, rows'[i].status>> \in
                  { <<"pending", "submitted">>, <<"pending", "confirmed">>,
                    <<"pending", "failed">>, <<"pending", "removed">>,
                    <<"submitted", "confirmed">>, <<"submitted", "failed">> }
      ]_vars

\* C19: while a bundle is submitted (handleOps returned a transaction, the
\* bundle is neither confirmed nor failed yet), every op of the bundle has
\* status submitted and the bundle's id as bundleId.
C19_OpsFollowSubmittedBundle ==
    \A w \in Workers :
        (wk[w].pc \in InTick /\ wk[w].bundle # 0
           /\ bundles[wk[w].bundle].status = "submitted") =>
            \A i \in Range(wk[w].ops) :
                /\ rows[i].status = "submitted"
                /\ rows[i].bundleId = wk[w].bundle

\* C20: once the bundle transaction of an admitted op is mined and the op is
\* confirmed, eth_getUserOperationReceipt(hash) eventually answers with the
\* receipt.
C20_ReceiptEventually ==
    \A h \in Hashes :
        (\E i \in RowsByHash(h) : rows[i].status = "confirmed")
            ~> (getUserOperationReceipt(h) = {"receipt"})

\* C21: after a tick whose bundle failed the ticker keeps running: an op that
\* is pending while a failed bundle exists and is not an op of a failed bundle
\* (it was admitted after the failure, or left out of the failed bundle) is
\* passed to handleOps by a later tick, in a bundle created after the failed
\* one.
C21_SurvivesFailedBundle ==
    \A i \in 1..(MaxRowsSurvive + 1) :
        (/\ i \in DOMAIN rows
         /\ rows[i].status = "pending"
         /\ \E b \in DOMAIN bundles : bundles[b].status = "failed"
         /\ rows[i].bundleId # 0 => bundles[rows[i].bundleId].status # "failed")
        ~> (\E c \in handleOpsCalls : \E b \in DOMAIN bundles :
               /\ bundles[b].status = "failed"
               /\ c.bundle > b
               /\ i \in Range(c.ops))

\* a bundle failed with its op, another op was admitted and a later tick
\* passed it to handleOps in a new bundle
C21_Witness ==
    \E c \in handleOpsCalls : \E b \in DOMAIN bundles : \E i, j \in DOMAIN rows :
        /\ bundles[b].status = "failed"
        /\ rows[j].status = "failed"
        /\ rows[j].bundleId = b
        /\ rows[j].submittedAt < rows[i].submittedAt
        /\ c.bundle > b
        /\ i \in Range(c.ops)
        /\ rows[i].bundleId = c.bundle

\* C22: when getMempoolSize() answers MAX_MEMPOOL_SIZE or more in the
\* validation of an op with an unknown hash, addUserOperation fails with
\* 'Mempool is full', and the call creates no row and no cache key for the op.
C22_MempoolCapacity ==
    [][\A r \in Handlers :
          /\ (req[r].pc = "size" /\ req'[r].pc # "size"
                 /\ getMempoolSize >= MAX_MEMPOOL_SIZE) =>
                /\ req'[r].pc = "failed"
                /\ req'[r].err = "Mempool is full"
                /\ UNCHANGED <<rows, mempoolKeys, senderNonce>>
          /\ (req[r].pc = "failed" /\ req[r].err = "Mempool is full") =>
                /\ req[r].wrote = 0
                /\ RowsByHash(getUserOperationHash(req[r].op)) = {}
                /\ getUserOperationHash(req[r].op) \notin mempoolKeys
                /\ senderNonce[SNKey(req[r].op)] = NoHash
                /\ req'[r].pc = "idle"
                /\ UNCHANGED <<rows, mempoolKeys, senderNonce>>
      ]_vars

\* with MAX_MEMPOOL_SIZE ops cached, the admission of one more op was refused
C22_Witness ==
    \E r \in Handlers :
        /\ req[r].pc = "failed"
        /\ req[r].err = "Mempool is full"
        /\ getMempoolSize = MAX_MEMPOOL_SIZE
        /\ Len(rows) = MAX_MEMPOOL_SIZE
        /\ RowsByHash(getUserOperationHash(req[r].op)) = {}

C24_ClearEmptiesMempool ==
    \A r \in Handlers :
        (req[r].kind = "clear" /\ req[r].pc = "done") =>
            /\ getMempoolSize = 0
            /\ PendingIdx = {}
            /\ mempoolKeys = {}
            /\ \A k \in SNKeys : senderNonce[k] = NoHash

\* C25: the durable store is authoritative on reads: every record that
\* getUserOperation(hash) can answer carries the status of a row with that
\* hash, so a cached copy never makes it answer pending for an op whose row is
\* confirmed, failed or removed.
C25_StoreAuthoritative ==
    \A h \in Hashes : \A u \in UserOpRecords(h) :
        \E i \in RowsByHash(h) : rows[i].status = u.status

\* C26: the hash is a function of the ten canonical fields and of nothing
\* else: two ops that agree on these fields get the same hash, whichever
\* process hashes them, whenever, and whatever their signatures are.
C26_HashPurity ==
    \A p, q \in Processes :
        (/\ hashed[p].done
         /\ hashed[q].done
         /\ \A f \in CanonicalFields : hashed[p].userOp[f] = hashed[q].userOp[f])
        => hashed[p].hash = hashed[q].hash

\* two processes hashed ops that differ in the signature only
C26_Witness ==
    \E p, q \in Processes :
        /\ p # q
        /\ hashed[p].done
        /\ hashed[q].done
        /\ \A f \in CanonicalFields : hashed[p].userOp[f] = hashed[q].userOp[f]
        /\ hashed[p].userOp.signature # hashed[q].userOp.signature
        /\ hashed[p].hash = hashed[q].hash

\* C27: the reply to a non-empty batch of n requests is an array of n
\* elements; the i-th carries the id of the i-th request and is the response
\* of that request, whatever order the elements finished in; an element that
\* failed has an error object, and that changes no other element: a read
\* beside it still has its result, an unknown method its -32601.
C27_BatchOrder ==
    (rpc.pc = "replied" /\ rpc.batch) =>
        /\ rpc.reply.status = 200
        /\ Len(rpc.reply.elems) = Len(rpc.body)
        /\ \A i \in DOMAIN rpc.body :
              LET e == rpc.body[i]
                  a == rpc.reply.elems[i]
              IN /\ a.id = e.id
                 /\ a = rpc.resp[i]
                 /\ a.hasResult # a.hasError
                 /\ (e.method = "eth_chainId" => a.hasResult)
                 /\ (e.method = "unsupported_method" =>
                        a.hasError /\ a.code = METHOD_NOT_FOUND)
                 /\ (e.method = "eth_sendUserOperation" =>
                        (a.hasError <=> rpc.threw[i] # "")
                        /\ (a.hasError => a.code = INVALID_OP))

\* a batch of two was answered whose second element finished first; the first
\* element failed, the second has a result, and their ids differ
C27_Witness ==
    /\ rpc.pc = "replied"
    /\ rpc.batch
    /\ rpc.order = <<2, 1>>
    /\ rpc.body[1].id # rpc.body[2].id
    /\ rpc.reply.elems[1].hasError
    /\ rpc.reply.elems[2].hasResult
    /\ rpc.reply.elems[1].id = rpc.body[1].id

\* C28: every single well-formed request, whatever its method and params, is
\* answered with HTTP status 200 and a body with exactly one of result and
\* error; an error's code is one of the error table; a method outside the
\* supported set is answered with error -32601.
C28_ResultOrError ==
    (rpc.pc = "replied" /\ ~rpc.batch) =>
        /\ rpc.reply.status = 200
        /\ Len(rpc.reply.elems) = 1
        /\ LET a == rpc.reply.elems[1]
           IN /\ a.hasResult # a.hasError
              /\ (a.hasError => a.code \in ErrorTable)
              /\ (rpc.body[1].method \notin SUPPORTED_METHODS =>
                     a.hasError /\ a.code = METHOD_NOT_FOUND)

\* C29: a single eth_sendUserOperation whose admission failed (invalid sender
\* or nonce, mempool full, conflict or underpriced replacement, failed
\* simulation) is answered with a JSON-RPC error of code -32000.
C29_AdmissionErrorReported ==
    (/\ rpc.pc = "replied"
     /\ ~rpc.batch
     /\ rpc.body[1].method = "eth_sendUserOperation"
     /\ rpc.threw[1] # "") =>
        /\ rpc.reply.status = 200
        /\ Len(rpc.reply.elems) = 1
        /\ rpc.reply.elems[1].hasError
        /\ rpc.reply.elems[1].code = INVALID_OP

\* C30: for eth_sendUserOperation and eth_estimateUserOperationGas, a
\* supplied entryPoint value that is not the configured address (compared
\* without case), a string or not, is rejected with -32602, and neither the
\* mempool nor the adapter is called for it.
C30_EntryPointRejected ==
    \A i \in DOMAIN rpc.body :
        LET e == rpc.body[i] IN
        (/\ e.method \in EntryPointMethods
         /\ e.nparams >= 2
         /\ ~(e.entryPoint.t = "string"
              /\ toLowerCase(e.entryPoint.v) = toLowerCase(entryPointAddress))) =>
            /\ ~rpc.called[i]
            /\ (rpc.el[i] = "finished" =>
                   rpc.resp[i].hasError /\ rpc.resp[i].code = INVALID_PARAMS)

\* C31: eth_getUserOperationByHash with a hash that neither the cache nor the
\* store knows is answered with result = null and no error object.
C31_UnknownHashNull ==
    \A i \in DOMAIN rpc.body :
        LET e == rpc.body[i] IN
        (/\ e.method = "eth_getUserOperationByHash"
         /\ e.nparams >= 1
         /\ rpc.el[i] = "finished"
         /\ e.hash \notin mempoolKeys
         /\ findByHash(e.hash) = {}) =>
            /\ rpc.resp[i].hasResult
            /\ rpc.resp[i].null
            /\ ~rpc.resp[i].hasError

\* C32: a simulation returns only when the EntryPoint call reverted with data
\* that is the validation result; when the call did not revert, reverted with
\* data that is an error, or reverted with data that does not decode, the
\* simulation throws and the admission that asked for it is rejected.
C32_RevertDecodeRule ==
    \A r \in Handlers :
        LET o == req[r].sim
            isResult == /\ o.reverted
                        /\ o.data.selector = "ValidationResult"
                        /\ o.data.fiveTuple
        IN  o # NoOutcome =>
              /\ (req[r].pc \in {"create", "cache", "done"} => isResult)
              /\ (~isResult =>
                     /\ req[r].pc = "failed"
                     /\ req[r].err = "User operation validation failed"
                     /\ req[r].wrote = 0)

\* C35: an op whose validation result has the signature-failure component
\* set is rejected by addUserOperation; no pending row is made for it.
C35_SignatureFailureRejected ==
    \A r \in Handlers :
        (/\ req[r].sim # NoOutcome
         /\ req[r].sim.data.selector = "ValidationResult"
         /\ req[r].sim.data.signatureFailed) =>
            /\ req[r].pc = "failed"
            /\ \A i \in findByHash(getUserOperationHash(req[r].op)) :
                  rows[i].status # "pending"

\* C33: shutdown goes in the order stop ingress, stop the ticker, wait for
\* the tick in flight, close the handles: a handle is closed only when the
\* server no longer listens and no timer is left, and no handle is closed and
\* the process does not exit while a tick is between its lock acquisition and
\* its lock release.
C33_GracefulShutdown ==
    (proc.pc # "new" /\ (~proc.db \/ ~proc.kv \/ proc.pc = "exited")) =>
        /\ ~proc.listening
        /\ proc.timers = 0
        /\ \A w \in Workers : wk[w].pc \notin InTick

\* C34: for every sequence of start and stop calls there is at most one
\* interval timer, and none while isRunning is false; start() while running
\* changes nothing; stop() leaves isRunning false and no timer, and while the
\* service stays stopped no bundleLoop is started; stop() while not running
\* changes nothing.
C34_StartStop ==
    [][/\ proc'.timers <= 1
       /\ (~proc'.isRunning => proc'.timers = 0)
       /\ (proc'.last = "start-noop" /\ proc.last # "start-noop") =>
             /\ proc.isRunning
             /\ proc' = [proc EXCEPT !.last = "start-noop"]
             /\ UNCHANGED <<wk, ticks>>
       /\ (proc'.last = "stopped" /\ proc.last # "stopped") =>
             /\ ~proc'.isRunning
             /\ proc'.timers = 0
             /\ UNCHANGED <<wk, ticks>>
       /\ (~proc.isRunning /\ ~proc'.isRunning) =>
             /\ ticks' = ticks
             /\ \A w \in Workers : wk[w].pc = "idle" => wk'[w].pc = "idle"
       /\ (proc'.last = "stop-noop" /\ proc.last # "stop-noop") =>
             /\ ~proc.isRunning
             /\ proc' = [proc EXCEPT !.last = "stop-noop"]
             /\ UNCHANGED <<wk, ticks>>
      ]_vars

\* the service was stopped while a tick was in flight, stop() was called once
\* more, and the service runs again with one timer
C34_Witness ==
    /\ proc.last = "start-noop"
    /\ proc.timers = 1
    /\ ticks = MaxTicksProc
    /\ \E w \in Workers : wk[w].pc \in InTick

\* C36: a lock whose holder is dead, or has ended its tick without deleting
\* the key, does not stay: the key expires, and a later bundleLoop of some
\* worker acquires the lock.
C36_OrphanedLockRecovered ==
    (lock /\ \A w \in lockHolders : wk[w].pc \notin InTick)
        ~> (\E w \in lockHolders : wk[w].pc \in InTick)

\* the first worker is dead and the lock is held by the second, in its tick
C36_Witness ==
    /\ wk["w1"].pc = "dead"
    /\ wk["w1"].last = "none"
    /\ lock
    /\ lockHolders = {"w2"}
    /\ wk["w2"].pc \in InTick

\* C37: no op is passed to handleOps in more than one bundle, whether its
\* first bundle was confirmed, failed, or still waits for its receipt.
C37_NoOpInTwoBundles ==
    \A c, d \in handleOpsCalls :
        c.bundle # d.bundle => Range(c.ops) \cap Range(d.ops) = {}

\* C38: when addUserOperation(op) throws, the durable store and the cache are
\* as they were when the call was made; an incumbent of the same (sender,
\* nonce) is still pending and still cached.  (SpecFrame: calls do not
\* overlap, so nothing but the call itself writes in between.)
C38_FailedAdmissionChangesNothing ==
    \A r \in Handlers :
        (req[r].kind = "add" /\ req[r].pc = "failed" /\ req[r].before.taken) =>
            /\ rows = req[r].before.rows
            /\ bundles = req[r].before.bundles
            /\ mempoolKeys = req[r].before.mempoolKeys
            /\ senderNonce = req[r].before.senderNonce

\* every cached op has its index key, holding its hash, and every index key
\* holds the hash of a cached op
IndexConsistent ==
    /\ \A h \in mempoolKeys : senderNonce[SNKey(OpOfHash(h))] = h
    /\ \A k \in SNKeys : senderNonce[k] # NoHash => senderNonce[k] \in mempoolKeys

\* a step that deletes an index key is the removal of the op the key held
IndexDeletedWithItsOp ==
    \A k \in SNKeys :
        (senderNonce[k] # NoHash /\ senderNonce'[k] = NoHash) =>
            \E r \in Handlers : req[r].pc = "rmDel" /\ req[r].old = senderNonce[k]

\* C39: in every reachable state every cached pending op has its (sender,
\* nonce) index key holding its hash and every index key holds the hash of a
\* cached op; a removal deletes the index key only if it holds the hash of
\* the removed op.
C39_IndexConsistency ==
    /\ []IndexConsistent
    /\ [][IndexDeletedWithItsOp]_vars

\* C40: in every reachable state, under any interleaving of concurrent
\* admissions, the number of mempool:<hash> keys (getMempoolSize) is at most
\* MAX_MEMPOOL_SIZE.
C40_CapacityNeverExceeded == getMempoolSize <= MAX_MEMPOOL_SIZE

====
